---- MODULE Spec2Model ----
(***************************************************************************)
(* A state-machine model of the APIService request pipeline of src/api.js: *)
(* rate limiting, response cache with expiry timers, retry with           *)
(* exponential backoff, and the request / response / error interceptor     *)
(* chains.  Time is in milliseconds; the clock advances in steps of        *)
(* TickMs.                                                                 *)
(***************************************************************************)
EXTENDS Integers, Sequences, FiniteSets, TLC

----------------------------------------------------------------------------
(* Bounds of the exploration, and the configuration handed to the          *)
(* constructor: small values in place of the defaults (100 requests per    *)
(* 60000 ms, 3 retries, 1000 ms retry delay, 300000 ms cache TTL).         *)

MaxSlots == 4
CacheCalls == 2
RateCalls == 4
RetryCalls == 1
ChainCalls == 1
ErrCalls == 3
MaxNow == 3000
TickMs == 1000
MaxIcpt == 2

maxRequests == 2
windowMs == 2000
maxRetries == 2
retryDelay == 1000
cacheTTL == 2000
timeout == 30000

MsPerSecond == 1000
RefreshLeadMs == 60000

Slots == 1..MaxSlots

----------------------------------------------------------------------------
(* Values                                                                  *)

Absent == "absent"
NoTTL == -1
NoStatus == 0

\* URLs are sequences of tokens; an absolute URL starts with the token "http".
baseURL == <<"http", "//h">>

StartsWithHttp(url) == Len(url) > 0 /\ url[1] = "http"

\* String.prototype.toUpperCase on the method names the workloads use.
ToUpperCase(m) ==
  CASE m \in {"get", "Get", "GET"} -> "GET"
    [] m \in {"post", "Post", "POST"} -> "POST"
    [] m \in {"put", "PUT"} -> "PUT"
    [] m \in {"patch", "PATCH"} -> "PATCH"
    [] m \in {"delete", "DELETE"} -> "DELETE"
    [] OTHER -> m

\* Math.ceil(a / b) for b > 0.
CeilDiv(a, b) == -((-a) \div b)

RECURSIVE Pow2(_)
Pow2(n) == IF n = 0 THEN 1 ELSE 2 * Pow2(n - 1)

RECURSIVE FilterSeqInclusive(_, _)
FilterSeqInclusive(s, bound) ==
  IF s = <<>> THEN <<>>
  ELSE IF Head(s) >= bound THEN <<Head(s)>> \o FilterSeqInclusive(Tail(s), bound)
       ELSE FilterSeqInclusive(Tail(s), bound)

RECURSIVE FilterSeq(_, _)
\* Array.prototype.filter with the predicate "timestamp > bound".
FilterSeq(s, bound) ==
  IF s = <<>> THEN <<>>
  ELSE IF Head(s) > bound THEN <<Head(s)>> \o FilterSeq(Tail(s), bound)
       ELSE FilterSeq(Tail(s), bound)

\* The value flowing through a chain: a request descriptor, a response
\* envelope, a non-envelope value, or an error.
NoValue ==
  [t |-> "none", status |-> NoStatus, data |-> <<>>, headers |-> "",
   marks |-> <<>>, fromCache |-> FALSE, by |-> 0, wait |-> 0]

Descriptor(r) == [NoValue EXCEPT !.t = "descriptor", !.by = r]

Envelope(r, status, headers, data) ==
  [NoValue EXCEPT !.t = "envelope", !.status = status, !.headers = headers,
                  !.data = data, !.by = r]

ErrorValue(r, kind, status, headers, data) ==
  [NoValue EXCEPT !.t = kind, !.status = status, !.headers = headers,
                  !.data = data, !.by = r]

IsError(v) == v.t \in {"HTTPStatusError", "NetworkFailure", "ParseError",
                       "RateLimitExceeded", "InterceptorError"}

Put(f, k, v) == [x \in (DOMAIN f) \cup {k} |-> IF x = k THEN v ELSE f[x]]

Remove(f, k) == [x \in (DOMAIN f) \ {k} |-> f[x]]

Range(f) == {f[x] : x \in DOMAIN f}

----------------------------------------------------------------------------
(* State                                                                   *)

VARIABLES
  now,                  \* Date.now()
  requestTimestamps,    \* this.requestTimestamps
  cache,                \* this.cache: key -> stored response
  cacheTimers,          \* this.cacheTimers: key -> timer handle
  pending,              \* expiry timers armed with setTimeout and not yet fired or cleared
  nextTimer,            \* next timer handle
  requestInterceptors,
  responseInterceptors,
  errorInterceptors,
  authToken,            \* this.authToken: <<type, token>>, or <<>> for null
  refreshToken,
  tokenExpiryTime,
  calls,                \* one record per request() call: its position and locals
  nCalls,               \* request() calls issued so far
  nChecks,              \* checkRateLimit() invocations so far
  nClears,              \* clearCache / clearAllCache invocations so far
  stored,               \* history: key -> last successful cacheable completion still in force
  clearMark,            \* history: nextTimer at the last clearAllCache()
  firedStale,           \* history: a timer armed before the last clearAllCache() fired after it
  gone                  \* history: timer id -> the key it guarded and how it ended

cacheVars == <<cache, cacheTimers, pending, nextTimer>>
chainVars == <<requestInterceptors, responseInterceptors, errorInterceptors>>
tokenVars == <<authToken, refreshToken, tokenExpiryTime>>
histVars == <<stored, clearMark, firedStale, gone>>

vars == <<now, requestTimestamps, cache, cacheTimers, pending, nextTimer,
          requestInterceptors, responseInterceptors, errorInterceptors,
          authToken, refreshToken, tokenExpiryTime, calls, nCalls, nChecks, nClears,
          stored, clearMark, firedStale, gone>>

NoConfig == [method |-> Absent, params |-> Absent, cache |-> Absent, cacheTTL |-> NoTTL]

IdleCall ==
  [pc |-> "idle", url |-> <<>>, cfg |-> NoConfig, via |-> "", caller |-> NoConfig,
   key |-> <<>>, attempt |-> 0, idx |-> 0, started |-> 0, finished |-> 0,
   val |-> NoValue, result |-> NoValue, wakeAt |-> 0, doneAt |-> 0, timer |-> 0,
   issuedAt |-> 0, tokRefresh |-> Absent, tokExpiry |-> 0,
   attemptAt |-> 0, abortAt |-> 0, aborted |-> 0,
   refreshed |-> 0, rateSeq |-> 0, rateAt |-> 0, rateOk |-> FALSE,
   live |-> FALSE, liveVal |-> NoValue, seen |-> {}, hit |-> FALSE, wrote |-> FALSE,
   transportCalls |-> 0, responses |-> <<>>, failures |-> <<>>, delays |-> <<>>,
   failedAt |-> 0, waits |-> <<>>,
   sent |-> <<>>, reqRuns |-> 0, respRuns |-> 0, errRuns |-> 0, errIn |-> NoValue]

Init ==
  /\ now = 0
  /\ requestTimestamps = <<>>
  /\ cache = <<>>
  /\ cacheTimers = <<>>
  /\ pending = {}
  /\ nextTimer = 1
  /\ requestInterceptors = <<>>
  /\ responseInterceptors = <<>>
  /\ errorInterceptors = <<>>
  /\ authToken = <<>>
  /\ refreshToken = Absent
  /\ tokenExpiryTime = 0
  /\ calls = [r \in Slots |-> IdleCall]
  /\ nCalls = 0
  /\ nChecks = 0
  /\ nClears = 0
  /\ stored = <<>>
  /\ clearMark = 0
  /\ firedStale = FALSE
  /\ gone = <<>>

----------------------------------------------------------------------------
(* The pure parts of the client                                            *)

IsTokenExpiredAtExpiry ==
  IF tokenExpiryTime = 0 THEN FALSE ELSE now > tokenExpiryTime

IsTokenExpired ==
  IF tokenExpiryTime = 0 THEN FALSE ELSE now > tokenExpiryTime - RefreshLeadMs

ResolveUrl(url) == IF StartsWithHttp(url) THEN url ELSE baseURL \o url

GenerateCacheKey(url, cfg) ==
  <<ToUpperCase(IF cfg.method = Absent THEN "GET" ELSE cfg.method),
    url,
    IF cfg.params = Absent THEN "" ELSE cfg.params>>

IsCacheableCaseSensitive(cfg) ==
  /\ cfg.method # "POST"
  /\ cfg.cache # "false"

IsCacheableOptIn(cfg) ==
  /\ (cfg.method = Absent \/ ToUpperCase(cfg.method) # "POST")
  /\ cfg.cache = "true"

\* config.method?.toUpperCase() !== 'POST' && config.cache !== false
IsCacheable(cfg) ==
  /\ (cfg.method = Absent \/ ToUpperCase(cfg.method) # "POST")
  /\ cfg.cache # "false"

GetFromCache(key) ==
  IF key \in DOMAIN cache THEN [cache[key] EXCEPT !.fromCache = TRUE] ELSE NoValue

SpreadCallerWins(a, b) ==
  [method |-> IF a.method # Absent THEN a.method ELSE b.method,
   params |-> IF a.params # Absent THEN a.params ELSE b.params,
   cache |-> IF a.cache # Absent THEN a.cache ELSE b.cache,
   cacheTTL |-> IF a.cacheTTL # NoTTL THEN a.cacheTTL ELSE b.cacheTTL]

\* { ...a, ...b }: the keys b sets win.
Spread(a, b) ==
  [method |-> IF b.method # Absent THEN b.method ELSE a.method,
   params |-> IF b.params # Absent THEN b.params ELSE a.params,
   cache |-> IF b.cache # Absent THEN b.cache ELSE a.cache,
   cacheTTL |-> IF b.cacheTTL # NoTTL THEN b.cacheTTL ELSE a.cacheTTL]

CheckedWindow == FilterSeq(requestTimestamps, now - windowMs)

RateLimitedLate == Len(CheckedWindow) > maxRequests

RateLimited == Len(CheckedWindow) >= maxRequests

WaitSeconds == CeilDiv(windowMs - (now - CheckedWindow[1]), MsPerSecond)

IsRetryableError(err) ==
  IF err.status = NoStatus THEN TRUE ELSE err.status >= 500

BackoffDelayOffByOne(attempt) == retryDelay * Pow2(attempt + 1)

BackoffDelay(attempt) == retryDelay * Pow2(attempt)

\* Interceptors: "A" and "B" return their input with their mark appended,
\* "U" returns a value that is not its input (the envelope is dropped),
\* "T" raises an error without a status code.
InterceptorThrows(name) == name = "T"

InterceptorReturns(name, v) ==
  IF name = "U"
    THEN [NoValue EXCEPT !.t = "raw", !.by = v.by, !.marks = Append(v.marks, name)]
    ELSE [v EXCEPT !.marks = Append(@, name)]

NextInChainReversed(chain, i) == chain[Len(chain) + 1 - i]

\* for (const interceptor of chain): the i-th interceptor in registration order.
NextInChain(chain, i) == chain[i]

\* An interceptor that throws an error carrying a client-error status.
InterceptorErrorWithStatus(r) == ErrorValue(r, "InterceptorError", 400, "", <<>>)

InterceptorError(r) == ErrorValue(r, "InterceptorError", NoStatus, "", <<>>)

\* What the transport can answer.
NetworkDown == [net |-> TRUE, status |-> NoStatus, ctype |-> "", body |-> ""]

Answer(status, ctype, body) ==
  [net |-> FALSE, status |-> status, ctype |-> ctype, body |-> body]

IsOk(status) == status >= 200 /\ status <= 299

HandleResponseBare(r, resp) ==
  IF IsOk(resp.status)
    THEN [NoValue EXCEPT !.t = "raw", !.by = r]
    ELSE ErrorValue(r, "HTTPStatusError", resp.status, resp.ctype, <<"json", resp.body>>)

HandleResponse(r, resp) ==
  LET json == resp.ctype = "application/json"
      text == resp.ctype = "text/plain"
      data == IF json THEN <<"json", resp.body>>
              ELSE IF text THEN <<"text", resp.body>>
              ELSE <<"blob", resp.body>>
  IN IF json /\ resp.body = "malformed"
       THEN ErrorValue(r, "ParseError", NoStatus, "", <<>>)       \* response.json() rejects
     ELSE IF ~IsOk(resp.status)
       THEN IF json /\ resp.body = "null"
              THEN ErrorValue(r, "ParseError", NoStatus, "", <<>>) \* data.message on null
              ELSE ErrorValue(r, "HTTPStatusError", resp.status, resp.ctype, data)
     ELSE Envelope(r, resp.status, resp.ctype, data)

----------------------------------------------------------------------------
(* Steps of one request() call, as functions on its record                 *)

EnterCatchSkipLocal(c, err) ==
  LET c1 == [c EXCEPT !.errIn = err, !.errRuns = @ + 1, !.started = 0, !.finished = 0] IN
  IF Len(errorInterceptors) = 0 \/ err.t = "RateLimitExceeded"
    THEN [c1 EXCEPT !.pc = "raised", !.result = err, !.val = NoValue]
    ELSE [c1 EXCEPT !.pc = "errIcpt", !.idx = 1, !.started = 1, !.val = err]

\* catch block of request(): the error enters the error interceptor chain.
EnterCatch(c, err) ==
  LET c1 == [c EXCEPT !.errIn = err, !.errRuns = @ + 1, !.started = 0, !.finished = 0] IN
  IF Len(errorInterceptors) = 0
    THEN [c1 EXCEPT !.pc = "raised", !.result = err, !.val = NoValue]
    ELSE [c1 EXCEPT !.pc = "errIcpt", !.idx = 1, !.started = 1, !.val = err]

\* fetch(interceptedConfig.url, interceptedConfig)
CallFetch(c) ==
  [c EXCEPT !.pc = "fetch", !.sent = c.val.marks, !.val = NoValue,
            !.transportCalls = @ + 1]

\* One abort deadline for the whole request() call.
CreateAbortSignalOnce(c) == IF c.attempt = 0 THEN now + timeout ELSE c.abortAt

\* createAbortSignal(this.timeout): the instant at which the abort timer is due.
CreateAbortSignal(c) == now + timeout

\* performRequest up to its first suspension.
BeginAttempt(r, c) ==
  LET c1 == [c EXCEPT !.val = Descriptor(r), !.reqRuns = @ + 1,
                      !.started = 0, !.finished = 0,
                      !.attemptAt = now, !.abortAt = CreateAbortSignal(c)] IN
  IF Len(requestInterceptors) = 0 THEN CallFetch(c1)
  ELSE [c1 EXCEPT !.pc = "reqIcpt", !.idx = 1, !.started = 1]

RetryOrPropagateOneMore(c, err) ==
  LET c1 == [c EXCEPT !.failures = Append(@, err.status)] IN
  IF c.attempt <= maxRetries /\ IsRetryableError(err)
    THEN [c1 EXCEPT !.pc = "backoff", !.val = NoValue, !.failedAt = now,
                    !.wakeAt = now + BackoffDelay(c.attempt),
                    !.delays = Append(@, BackoffDelay(c.attempt))]
  ELSE EnterCatch(c1, err)

\* catch block of retryRequest().
RetryOrPropagate(c, err) ==
  LET c1 == [c EXCEPT !.failures = Append(@, err.status)] IN
  IF c.attempt < maxRetries /\ IsRetryableError(err)
    THEN [c1 EXCEPT !.pc = "backoff", !.val = NoValue, !.failedAt = now,
                    !.wakeAt = now + BackoffDelay(c.attempt),
                    !.delays = Append(@, BackoffDelay(c.attempt))]
    ELSE EnterCatch(c1, err)

\* request() after retryRequest() resolved.
Finish(c, result) ==
  [c EXCEPT !.pc = "returned", !.result = result, !.val = NoValue,
            !.wrote = IsCacheable(c.cfg), !.doneAt = now, !.timer = nextTimer]

\* performRequest after handleResponse() resolved.
AfterHandle(c, v) ==
  LET c1 == [c EXCEPT !.respRuns = @ + 1, !.started = 0, !.finished = 0] IN
  IF Len(responseInterceptors) = 0 THEN Finish(c1, v)
  ELSE [c1 EXCEPT !.pc = "respIcpt", !.idx = 1, !.started = 1, !.val = v]

----------------------------------------------------------------------------
(* Cache                                                                   *)

\* setCache() that always uses the client's cacheTTL.
SetCacheDefaultTtl(key, data, ttlArg) ==
  LET old == IF key \in DOMAIN cacheTimers THEN {cacheTimers[key]} ELSE {}
  IN /\ cache' = Put(cache, key, data)
     /\ pending' = {t \in pending : t.id \notin old}
                     \cup {[id |-> nextTimer, key |-> key, at |-> now + cacheTTL]}
     /\ cacheTimers' = Put(cacheTimers, key, nextTimer)
     /\ nextTimer' = nextTimer + 1

\* setCache() without the clearTimeout of lines 177-179.
SetCacheKeepOld(key, data, ttlArg) ==
  LET ttl == IF ttlArg = NoTTL THEN cacheTTL ELSE ttlArg
  IN /\ cache' = Put(cache, key, data)
     /\ pending' = pending \cup {[id |-> nextTimer, key |-> key, at |-> now + ttl]}
     /\ cacheTimers' = Put(cacheTimers, key, nextTimer)
     /\ nextTimer' = nextTimer + 1

SetCache(key, data, ttlArg) ==
  LET ttl == IF ttlArg = NoTTL THEN cacheTTL ELSE ttlArg
      old == IF key \in DOMAIN cacheTimers THEN {cacheTimers[key]} ELSE {}
  IN /\ cache' = Put(cache, key, data)
     /\ pending' = {t \in pending : t.id \notin old}
                     \cup {[id |-> nextTimer, key |-> key, at |-> now + ttl]}
     /\ cacheTimers' = Put(cacheTimers, key, nextTimer)
     /\ nextTimer' = nextTimer + 1

\* History only: how the timer of an entry ended.
Ended(key, how) == [key |-> key, how |-> how]

EndAll ==
  [id \in (DOMAIN gone) \cup Range(cacheTimers) |->
     IF id \in Range(cacheTimers)
       THEN Ended(CHOOSE k \in DOMAIN cacheTimers : cacheTimers[k] = id, "clearAllCache")
       ELSE gone[id]]

\* The claims speak of "cacheable" requests: method not POST, flag not false.
SaidCacheable(cfg) ==
  /\ cfg.method \notin {"post", "Post", "POST"}
  /\ cfg.cache # "false"

\* A store that also runs when the call fails, keeping the error as the entry.
StoreOnSettle(c) ==
  LET failed == c.pc \in {"raised", "errIcpt"} /\ c.rateOk /\ IsCacheable(c.cfg) IN
  /\ IF c.pc = "returned" /\ c.wrote THEN SetCache(c.key, c.result, c.cfg.cacheTTL)
     ELSE IF failed THEN SetCache(c.key, c.errIn, c.cfg.cacheTTL)
     ELSE UNCHANGED cacheVars
  /\ stored' = IF c.pc = "returned" /\ SaidCacheable(c.cfg)
                 THEN Put(stored, c.key, [id |-> nextTimer, val |-> c.result])
                 ELSE stored
  /\ gone' = IF (failed \/ (c.pc = "returned" /\ c.wrote)) /\ c.key \in DOMAIN cacheTimers
               THEN Put(gone, cacheTimers[c.key], Ended(c.key, "replaced"))
               ELSE gone
  /\ UNCHANGED <<clearMark, firedStale>>

\* The part of request() after retryRequest() resolved: lines 377-382.
StoreOnReturn(c) ==
  /\ IF c.pc = "returned" /\ c.wrote
       THEN SetCache(c.key, c.result, c.cfg.cacheTTL)
       ELSE UNCHANGED cacheVars
  /\ stored' = IF c.pc = "returned" /\ SaidCacheable(c.cfg)
                 THEN Put(stored, c.key, [id |-> nextTimer, val |-> c.result])
                 ELSE stored
  /\ gone' = IF c.pc = "returned" /\ c.wrote /\ c.key \in DOMAIN cacheTimers
               THEN Put(gone, cacheTimers[c.key], Ended(c.key, "replaced"))
               ELSE gone
  /\ UNCHANGED <<clearMark, firedStale>>

\* A timer callback that deletes the entry and leaves its handle behind.
ExpireTimerKeepHandle(t) ==
  /\ t \in pending
  /\ now >= t.at
  /\ cache' = Remove(cache, t.key)
  /\ cacheTimers' = cacheTimers
  /\ pending' = pending \ {t}
  /\ stored' = IF t.key \in DOMAIN stored /\ stored[t.key].id = t.id
                 THEN Remove(stored, t.key) ELSE stored
  /\ firedStale' = (firedStale \/ t.id < clearMark)
  /\ gone' = Put(gone, t.id, Ended(t.key, "fired"))
  /\ UNCHANGED <<now, requestTimestamps, nextTimer, chainVars, tokenVars,
                 calls, nCalls, nChecks, nClears, clearMark>>

\* The callback armed by setCache.
ExpireTimer(t) ==
  /\ t \in pending
  /\ now >= t.at
  /\ cache' = Remove(cache, t.key)
  /\ cacheTimers' = Remove(cacheTimers, t.key)
  /\ pending' = pending \ {t}
  /\ stored' = IF t.key \in DOMAIN stored /\ stored[t.key].id = t.id
                 THEN Remove(stored, t.key) ELSE stored
  /\ firedStale' = (firedStale \/ t.id < clearMark)
  /\ gone' = Put(gone, t.id, Ended(t.key, "fired"))
  /\ UNCHANGED <<now, requestTimestamps, nextTimer, chainVars, tokenVars,
                 calls, nCalls, nChecks, nClears, clearMark>>

MaxClears == 2

ClearCacheLeaveTimer(key) ==
  /\ nClears < MaxClears
  /\ nClears' = nClears + 1
  /\ cacheTimers' = Remove(cacheTimers, key)
  /\ cache' = Remove(cache, key)
  /\ stored' = Remove(stored, key)
  /\ gone' = IF key \in DOMAIN cacheTimers
               THEN Put(gone, cacheTimers[key], Ended(key, "clearCache")) ELSE gone
  /\ UNCHANGED <<now, requestTimestamps, pending, nextTimer, chainVars, tokenVars,
                 calls, nCalls, nChecks, clearMark, firedStale>>

ClearCache(key) ==
  /\ nClears < MaxClears
  /\ nClears' = nClears + 1
  /\ pending' = IF key \in DOMAIN cacheTimers
                  THEN {t \in pending : t.id # cacheTimers[key]} ELSE pending
  /\ cacheTimers' = Remove(cacheTimers, key)
  /\ cache' = Remove(cache, key)
  /\ stored' = Remove(stored, key)
  /\ gone' = IF key \in DOMAIN cacheTimers
               THEN Put(gone, cacheTimers[key], Ended(key, "clearCache")) ELSE gone
  /\ UNCHANGED <<now, requestTimestamps, nextTimer, chainVars, tokenVars,
                 calls, nCalls, nChecks, clearMark, firedStale>>

ClearAllCacheKeepTimers ==
  /\ nClears < MaxClears
  /\ nClears' = nClears + 1
  /\ cacheTimers' = <<>>
  /\ cache' = <<>>
  /\ stored' = <<>>
  /\ clearMark' = nextTimer
  /\ gone' = EndAll
  /\ UNCHANGED <<now, requestTimestamps, pending, nextTimer, chainVars, tokenVars,
                 calls, nCalls, nChecks, firedStale>>

\* A clearAllCache that also marks the requests in flight as not to be stored.
ClearAllCacheCancels ==
  /\ nClears < MaxClears
  /\ nClears' = nClears + 1
  /\ pending' = {t \in pending : t.id \notin Range(cacheTimers)}
  /\ cacheTimers' = <<>>
  /\ cache' = <<>>
  /\ stored' = <<>>
  /\ clearMark' = nextTimer
  /\ gone' = EndAll
  /\ calls' = [r \in Slots |->
                IF calls[r].pc \in {"idle", "returned", "raised"} THEN calls[r]
                ELSE [calls[r] EXCEPT !.cfg.cache = "false"]]
  /\ UNCHANGED <<now, requestTimestamps, nextTimer, chainVars, tokenVars,
                 nCalls, nChecks, firedStale>>

ClearAllCache ==
  /\ nClears < MaxClears
  /\ nClears' = nClears + 1
  /\ pending' = {t \in pending : t.id \notin Range(cacheTimers)}
  /\ cacheTimers' = <<>>
  /\ cache' = <<>>
  /\ stored' = <<>>
  /\ clearMark' = nextTimer
  /\ gone' = EndAll
  /\ UNCHANGED <<now, requestTimestamps, nextTimer, chainVars, tokenVars,
                 calls, nCalls, nChecks, firedStale>>

GetCacheStats == [entries |-> Cardinality(DOMAIN cache), keys |-> DOMAIN cache]

GetRateLimitStatus ==
  [requestsInWindow |-> Len(CheckedWindow),
   maxRequests |-> maxRequests,
   remaining |-> maxRequests - Len(CheckedWindow),
   windowMs |-> windowMs]

----------------------------------------------------------------------------
(* request() and its continuations                                         *)

RateLimitError(r) ==
  [ErrorValue(r, "RateLimitExceeded", NoStatus, "", <<>>) EXCEPT !.wait = WaitSeconds]

\* request() with the cache lookup moved in front of checkRateLimit().
ProceedCacheFirst(r, c) ==
  LET key == GenerateCacheKey(ResolveUrl(c.url), c.cfg)
      c0 == [c EXCEPT !.key = key,
                      !.seen = {k \in DOMAIN cache : k[2] = key[2] /\ k[3] = key[3]},
                      !.live = key \in DOMAIN stored,
                      !.liveVal = IF key \in DOMAIN stored THEN stored[key].val ELSE NoValue]
      c1 == [c0 EXCEPT !.rateSeq = nChecks + 1, !.rateAt = now, !.rateOk = ~RateLimited]
  IN /\ nChecks' = nChecks + 1
     /\ IF IsCacheable(c.cfg) /\ key \in DOMAIN cache
          THEN /\ requestTimestamps' = requestTimestamps
               /\ calls' = [calls EXCEPT ![r] =
                    [c0 EXCEPT !.rateSeq = nChecks + 1, !.rateAt = now, !.rateOk = TRUE,
                               !.pc = "returned", !.hit = TRUE,
                               !.result = GetFromCache(key)]]
        ELSE IF RateLimited
          THEN /\ requestTimestamps' = CheckedWindow
               /\ calls' = [calls EXCEPT ![r] = EnterCatch(c1, RateLimitError(r))]
          ELSE /\ requestTimestamps' = Append(CheckedWindow, now)
               /\ calls' = [calls EXCEPT ![r] = BeginAttempt(r, c1)]

\* A client that coalesces identical requests: a call made while another call
\* with the same key is in flight awaits that call's transport promise.
ProceedCoalescing(r, c) ==
  LET key == GenerateCacheKey(ResolveUrl(c.url), c.cfg)
      c1 == [c EXCEPT !.rateSeq = nChecks + 1, !.rateAt = now, !.rateOk = ~RateLimited,
                      !.live = key \in DOMAIN stored]
      c2 == [c1 EXCEPT !.key = key,
                       !.seen = {k \in DOMAIN cache : k[2] = key[2] /\ k[3] = key[3]},
                       !.liveVal = IF key \in DOMAIN stored THEN stored[key].val ELSE NoValue]
      shared == \E q \in Slots \ {r} : calls[q].pc = "fetch" /\ calls[q].key = key
  IN /\ nChecks' = nChecks + 1
     /\ IF RateLimited
          THEN /\ requestTimestamps' = CheckedWindow
               /\ calls' = [calls EXCEPT ![r] = EnterCatch(c1, RateLimitError(r))]
          ELSE /\ requestTimestamps' = Append(CheckedWindow, now)
               /\ calls' = [calls EXCEPT ![r] =
                    IF IsCacheable(c.cfg) /\ key \in DOMAIN cache
                      THEN [c2 EXCEPT !.pc = "returned", !.hit = TRUE,
                                      !.result = GetFromCache(key)]
                    ELSE IF shared THEN [c2 EXCEPT !.pc = "fetch"]
                    ELSE BeginAttempt(r, c2)]

\* checkRateLimit() that records the call before it decides.
ProceedRecordFirst(r, c) ==
  LET key == GenerateCacheKey(ResolveUrl(c.url), c.cfg)
      c1 == [c EXCEPT !.rateSeq = nChecks + 1, !.rateAt = now, !.rateOk = ~RateLimited,
                      !.live = key \in DOMAIN stored]
      c2 == [c1 EXCEPT !.key = key,
                       !.seen = {k \in DOMAIN cache : k[2] = key[2] /\ k[3] = key[3]},
                       !.liveVal = IF key \in DOMAIN stored THEN stored[key].val ELSE NoValue]
  IN /\ nChecks' = nChecks + 1
     /\ requestTimestamps' = Append(CheckedWindow, now)
     /\ IF RateLimited
          THEN calls' = [calls EXCEPT ![r] = EnterCatch(c1, RateLimitError(r))]
          ELSE calls' = [calls EXCEPT ![r] =
                    IF IsCacheable(c.cfg) /\ key \in DOMAIN cache
                      THEN [c2 EXCEPT !.pc = "returned", !.hit = TRUE,
                                      !.result = GetFromCache(key)]
                      ELSE BeginAttempt(r, c2)]

\* request() from checkRateLimit() to its first suspension: lines 360-375.
Proceed(r, c) ==
  LET key == GenerateCacheKey(ResolveUrl(c.url), c.cfg)
      c1 == [c EXCEPT !.rateSeq = nChecks + 1, !.rateAt = now, !.rateOk = ~RateLimited,
                      !.live = key \in DOMAIN stored]
      c2 == [c1 EXCEPT !.key = key,
                       !.seen = {k \in DOMAIN cache : k[2] = key[2] /\ k[3] = key[3]},
                       !.liveVal = IF key \in DOMAIN stored THEN stored[key].val ELSE NoValue]
  IN /\ nChecks' = nChecks + 1
     /\ IF RateLimited
          THEN /\ requestTimestamps' = CheckedWindow
               /\ calls' = [calls EXCEPT ![r] = EnterCatch(c1, RateLimitError(r))]
          ELSE /\ requestTimestamps' = Append(CheckedWindow, now)
               /\ calls' = [calls EXCEPT ![r] =
                    IF IsCacheable(c.cfg) /\ key \in DOMAIN cache
                      THEN [c2 EXCEPT !.pc = "returned", !.hit = TRUE,
                                      !.result = GetFromCache(key)]
                      ELSE BeginAttempt(r, c2)]

Request(r, url, cfg, via, caller) ==
  /\ r = nCalls + 1
  /\ nCalls' = nCalls + 1
  /\ LET c == [IdleCall EXCEPT !.url = url, !.cfg = cfg, !.via = via, !.caller = caller,
                               !.issuedAt = now, !.tokRefresh = refreshToken,
                               !.tokExpiry = tokenExpiryTime] IN
     IF IsTokenExpired /\ refreshToken # Absent
       THEN /\ calls' = [calls EXCEPT ![r] = [c EXCEPT !.pc = "refresh", !.refreshed = 1]]
            /\ UNCHANGED <<requestTimestamps, nChecks>>
       ELSE Proceed(r, c)
  /\ UNCHANGED <<now, cacheVars, chainVars, tokenVars, nClears, histVars>>

\* refreshAuthToken() resolved (the default hook changes nothing).
RefreshDone(r) ==
  /\ calls[r].pc = "refresh"
  /\ Proceed(r, calls[r])
  /\ UNCHANGED <<now, cacheVars, chainVars, tokenVars, nCalls, nClears, histVars>>

RequestDirect(r, url, cfg) == Request(r, url, cfg, "request", cfg)

Get(r, url, cfg) ==
  Request(r, url, Spread(cfg, [NoConfig EXCEPT !.method = "GET"]), "get", cfg)

Post(r, url, cfg) ==
  Request(r, url, Spread(cfg, [NoConfig EXCEPT !.method = "POST", !.cache = "false"]),
          "post", cfg)

PutCall(r, url, cfg) ==
  Request(r, url, Spread(cfg, [NoConfig EXCEPT !.method = "PUT", !.cache = "false"]),
          "put", cfg)

Patch(r, url, cfg) ==
  Request(r, url, Spread(cfg, [NoConfig EXCEPT !.method = "PATCH", !.cache = "false"]),
          "patch", cfg)

Delete(r, url, cfg) ==
  Request(r, url, Spread(cfg, [NoConfig EXCEPT !.method = "DELETE", !.cache = "false"]),
          "delete", cfg)

\* One request interceptor resolved: executeRequestInterceptors, then fetch.
RequestInterceptorDone(r) ==
  LET c == calls[r]
      name == NextInChain(requestInterceptors, c.idx)
      c1 == [c EXCEPT !.val = InterceptorReturns(name, c.val), !.finished = @ + 1]
  IN /\ c.pc = "reqIcpt"
     /\ calls' = [calls EXCEPT ![r] =
          IF InterceptorThrows(name) THEN RetryOrPropagate(c, InterceptorError(r))
          ELSE IF c.idx < Len(requestInterceptors)
            THEN [c1 EXCEPT !.idx = @ + 1, !.started = @ + 1]
            ELSE CallFetch(c1)]
     /\ UNCHANGED <<now, requestTimestamps, cacheVars, chainVars, tokenVars,
                    nCalls, nChecks, nClears, histVars>>

\* fetch() settled; handleResponse; with no response interceptor the call returns.
FetchDone(r, out) ==
  LET c == [calls[r] EXCEPT !.responses = Append(@, out.status)]
      v == HandleResponse(r, out)
      c2 == IF out.net
              THEN RetryOrPropagate(c, ErrorValue(r, "NetworkFailure", NoStatus, "", <<>>))
            ELSE IF IsError(v) THEN RetryOrPropagate(c, v)
            ELSE AfterHandle(c, v)
  IN /\ calls[r].pc = "fetch"
     /\ now <= calls[r].abortAt
     /\ calls' = [calls EXCEPT ![r] = c2]
     /\ StoreOnReturn(c2)
     /\ UNCHANGED <<now, requestTimestamps, chainVars, tokenVars,
                    nCalls, nChecks, nClears>>

\* The abort timer of the attempt fired while fetch was pending: fetch rejects
\* with an AbortError, which has no status.
AbortFetch(r) ==
  /\ calls[r].pc = "fetch"
  /\ now >= calls[r].abortAt
  /\ calls' = [calls EXCEPT ![r] =
       RetryOrPropagate([calls[r] EXCEPT !.aborted = @ + 1],
                        ErrorValue(r, "AbortError", NoStatus, "", <<>>))]
  /\ UNCHANGED <<now, requestTimestamps, cacheVars, chainVars, tokenVars,
                 nCalls, nChecks, nClears, histVars>>

\* One response interceptor resolved; after the last one the call returns.
ResponseInterceptorDone(r) ==
  LET c == calls[r]
      name == NextInChain(responseInterceptors, c.idx)
      c1 == [c EXCEPT !.val = InterceptorReturns(name, c.val), !.finished = @ + 1]
      c2 == IF InterceptorThrows(name) THEN RetryOrPropagate(c, InterceptorError(r))
            ELSE IF c.idx < Len(responseInterceptors)
              THEN [c1 EXCEPT !.idx = @ + 1, !.started = @ + 1]
              ELSE Finish(c1, c1.val)
  IN /\ c.pc = "respIcpt"
     /\ calls' = [calls EXCEPT ![r] = c2]
     /\ StoreOnReturn(c2)
     /\ UNCHANGED <<now, requestTimestamps, chainVars, tokenVars,
                    nCalls, nChecks, nClears>>

\* One error interceptor resolved; after the last one the error is thrown.
ErrorInterceptorDone(r) ==
  LET c == calls[r]
      name == NextInChain(errorInterceptors, c.idx)
      c1 == [c EXCEPT !.val = InterceptorReturns(name, c.val), !.finished = @ + 1]
  IN /\ c.pc = "errIcpt"
     /\ calls' = [calls EXCEPT ![r] =
          IF InterceptorThrows(name)
            THEN [c EXCEPT !.pc = "raised", !.result = InterceptorError(r), !.val = NoValue]
          ELSE IF c.idx < Len(errorInterceptors)
            THEN [c1 EXCEPT !.idx = @ + 1, !.started = @ + 1]
            ELSE [c1 EXCEPT !.pc = "raised", !.result = c1.val, !.val = NoValue]]
     /\ UNCHANGED <<now, requestTimestamps, cacheVars, chainVars, tokenVars,
                    nCalls, nChecks, nClears, histVars>>

\* A retry that goes through checkRateLimit() again.
BackoffDoneRateChecked(r) ==
  /\ calls[r].pc = "backoff"
  /\ now >= calls[r].wakeAt
  /\ nChecks' = nChecks + 1
  /\ requestTimestamps' = IF RateLimited THEN CheckedWindow ELSE Append(CheckedWindow, now)
  /\ calls' = [calls EXCEPT ![r] =
       IF RateLimited
         THEN EnterCatch(calls[r], RateLimitError(r))
         ELSE BeginAttempt(r, [calls[r] EXCEPT !.attempt = @ + 1,
                                               !.waits = Append(@, now - calls[r].failedAt)])]
  /\ UNCHANGED <<now, cacheVars, chainVars, tokenVars, nCalls, nClears, histVars>>

\* The backoff timer of retryRequest fired: the next attempt starts.
BackoffDone(r) ==
  /\ calls[r].pc = "backoff"
  /\ now >= calls[r].wakeAt
  /\ calls' = [calls EXCEPT ![r] =
       BeginAttempt(r, [calls[r] EXCEPT !.attempt = @ + 1,
                                        !.waits = Append(@, now - calls[r].failedAt)])]
  /\ UNCHANGED <<now, requestTimestamps, cacheVars, chainVars, tokenVars,
                 nCalls, nChecks, nClears, histVars>>

----------------------------------------------------------------------------
(* Registration, tokens, clock                                             *)

AddRequestInterceptor(f) ==
  /\ Len(requestInterceptors) < MaxIcpt
  /\ requestInterceptors' = Append(requestInterceptors, f)
  /\ UNCHANGED <<now, requestTimestamps, cacheVars, responseInterceptors,
                 errorInterceptors, tokenVars, calls, nCalls, nChecks, nClears, histVars>>

AddResponseInterceptor(f) ==
  /\ Len(responseInterceptors) < MaxIcpt
  /\ responseInterceptors' = Append(responseInterceptors, f)
  /\ UNCHANGED <<now, requestTimestamps, cacheVars, requestInterceptors,
                 errorInterceptors, tokenVars, calls, nCalls, nChecks, nClears, histVars>>

AddErrorInterceptor(f) ==
  /\ Len(errorInterceptors) < MaxIcpt
  /\ errorInterceptors' = Append(errorInterceptors, f)
  /\ UNCHANGED <<now, requestTimestamps, cacheVars, requestInterceptors,
                 responseInterceptors, tokenVars, calls, nCalls, nChecks, nClears, histVars>>

SetAuthToken(token, type) ==
  /\ authToken' = <<type, token>>
  /\ UNCHANGED <<now, requestTimestamps, cacheVars, chainVars, refreshToken,
                 tokenExpiryTime, calls, nCalls, nChecks, nClears, histVars>>

SetRefreshToken(token, expiryTime) ==
  /\ refreshToken' = token
  /\ tokenExpiryTime' = now + expiryTime
  /\ UNCHANGED <<authToken, now, requestTimestamps, cacheVars, chainVars, calls, nCalls,
                 nChecks, nClears, histVars>>

Tick ==
  /\ now + TickMs <= MaxNow
  /\ now' = now + TickMs
  /\ UNCHANGED <<requestTimestamps, cacheVars, chainVars, tokenVars, calls,
                 nCalls, nChecks, nClears, histVars>>

\* The delay given to setTimeout by createAbortSignal() elapses while the
\* transport call is pending.
TimeoutElapses(r) ==
  /\ calls[r].pc = "fetch"
  /\ now < calls[r].abortAt
  /\ now' = calls[r].abortAt
  /\ UNCHANGED <<requestTimestamps, cacheVars, chainVars, tokenVars, calls,
                 nCalls, nChecks, nClears, histVars>>

\* The delay given to setTimeout by retryRequest() elapses: time does not stop
\* while a backoff timer is armed.
BackoffElapses(r) ==
  /\ calls[r].pc = "backoff"
  /\ now < calls[r].wakeAt
  /\ now' = calls[r].wakeAt
  /\ UNCHANGED <<requestTimestamps, cacheVars, chainVars, tokenVars, calls,
                 nCalls, nChecks, nClears, histVars>>

----------------------------------------------------------------------------
(* Workloads: what the application does with the client                    *)

R200 == Answer(200, "application/json", "good")
R404 == Answer(404, "application/json", "good")
R404Malformed == Answer(404, "application/json", "malformed")
R503 == Answer(503, "text/plain", "good")

UrlA == <<"/a">>
UrlAbsA == <<"http", "//h", "/a">>
UrlB == <<"/b">>

In(url, method, cacheFlag, ttl) ==
  [url |-> url,
   cfg |-> [method |-> method, params |-> Absent, cache |-> cacheFlag, cacheTTL |-> ttl]]

CacheInputs ==
  { In(UrlA, Absent, Absent, NoTTL),
    In(UrlAbsA, "get", "true", 1000),
    In(UrlA, Absent, "false", NoTTL),
    In(UrlA, "Post", "true", NoTTL),
    In(UrlB, Absent, Absent, NoTTL) }

CacheKeys == {GenerateCacheKey(ResolveUrl(i.url), i.cfg) : i \in CacheInputs}

NextCache ==
  \/ \E r \in Slots, i \in CacheInputs :
       nCalls < CacheCalls /\ RequestDirect(r, i.url, i.cfg)
  \/ \E r \in Slots, out \in {R200, R404} : FetchDone(r, out)
  \/ \E t \in pending : ExpireTimer(t)
  \/ \E k \in CacheKeys : ClearCache(k)
  \/ ClearAllCache
  \/ Tick

SpecCache == Init /\ [][NextCache]_vars

\* Two keys are stored and cleared, one at a time or all at once; a third key
\* is never stored.
ClearCalls == 2

ClearInputs ==
  { In(UrlA, Absent, Absent, NoTTL),
    In(UrlB, Absent, Absent, NoTTL) }

NextClear ==
  \/ \E r \in Slots, i \in ClearInputs :
       nCalls < ClearCalls /\ RequestDirect(r, i.url, i.cfg)
  \/ \E r \in Slots : FetchDone(r, R200)
  \/ \E t \in pending : ExpireTimer(t)
  \/ \E k \in CacheKeys : ClearCache(k)
  \/ ClearAllCache
  \/ Tick

SpecClear == Init /\ [][NextClear]_vars

\* Calls that all have one cache key, under its different spellings, and
\* overlap.
PairCalls == 2

PairInputs ==
  { In(UrlA, Absent, Absent, NoTTL),
    In(UrlAbsA, "get", "true", 1000) }

NextPair ==
  \/ \E r \in Slots, i \in PairInputs :
       nCalls < PairCalls /\ RequestDirect(r, i.url, i.cfg)
  \/ \E r \in Slots, out \in {R200, R404} : FetchDone(r, out)
  \/ \E t \in pending : ExpireTimer(t)
  \/ Tick

SpecPair == Init /\ [][NextPair]_vars

PostInputs ==
  {In(UrlA, Absent, Absent, NoTTL)}
    \cup {In(UrlA, m, f, NoTTL) : m \in {"post", "Post", "POST"},
                                  f \in {Absent, "true", "false"}}

NextPost ==
  \/ \E r \in Slots, i \in PostInputs :
       nCalls < CacheCalls /\ RequestDirect(r, i.url, i.cfg)
  \/ \E r \in Slots : FetchDone(r, R200)
  \/ \E t \in pending : ExpireTimer(t)
  \/ Tick

SpecPost == Init /\ [][NextPost]_vars

CallerConfigs ==
  { NoConfig,
    [NoConfig EXCEPT !.cache = "true", !.cacheTTL = 1000] }

NextWrap ==
  \/ \E r \in Slots, m \in {"PUT", "DELETE"} :
       nCalls < CacheCalls /\ RequestDirect(r, UrlA, [NoConfig EXCEPT !.method = m])
  \/ \E r \in Slots, cfg \in CallerConfigs : nCalls < CacheCalls /\ Get(r, UrlA, cfg)
  \/ \E r \in Slots, cfg \in CallerConfigs : nCalls < CacheCalls /\ Post(r, UrlA, cfg)
  \/ \E r \in Slots, cfg \in CallerConfigs : nCalls < CacheCalls /\ PutCall(r, UrlA, cfg)
  \/ \E r \in Slots, cfg \in CallerConfigs : nCalls < CacheCalls /\ Patch(r, UrlA, cfg)
  \/ \E r \in Slots, cfg \in CallerConfigs : nCalls < CacheCalls /\ Delete(r, UrlA, cfg)
  \/ \E r \in Slots : FetchDone(r, R200)
  \/ \E t \in pending : ExpireTimer(t)
  \/ Tick

SpecWrap == Init /\ [][NextWrap]_vars

RateInputs ==
  { In(UrlA, Absent, Absent, NoTTL),
    In(UrlA, "POST", Absent, NoTTL) }

NextRate ==
  \/ \E r \in Slots, i \in RateInputs :
       nCalls < RateCalls /\ RequestDirect(r, i.url, i.cfg)
  \/ \E r \in Slots : FetchDone(r, R200)
  \/ \E t \in pending : ExpireTimer(t)
  \/ Tick

SpecRate == Init /\ [][NextRate]_vars

RetryInputs ==
  { In(UrlA, Absent, Absent, NoTTL),
    In(UrlA, "POST", Absent, NoTTL) }

Outcomes == {NetworkDown, R200, R404, R404Malformed, R503}

NextRetry ==
  \/ \E r \in Slots, i \in RetryInputs :
       nCalls < RetryCalls /\ RequestDirect(r, i.url, i.cfg)
  \/ \E r \in Slots, out \in Outcomes : FetchDone(r, out)
  \/ \E r \in Slots : BackoffDone(r)
  \/ \E t \in pending : ExpireTimer(t)
  \/ Tick

SpecRetry == Init /\ [][NextRetry]_vars

\* The application awaits each call before it issues the next one.
NoneInFlight == \A r \in Slots : calls[r].pc \in {"idle", "returned", "raised"}

NextChain ==
  \/ \E r \in Slots :
       /\ nCalls < ChainCalls
       /\ NoneInFlight
       /\ RequestDirect(r, UrlA, NoConfig)
  \/ \E f \in {"A", "B", "T"} : nCalls = 0 /\ AddRequestInterceptor(f)
  \/ \E f \in {"A", "B", "U", "T"} : nCalls = 0 /\ AddResponseInterceptor(f)
  \/ \E r \in Slots : RequestInterceptorDone(r)
  \/ \E r \in Slots, out \in {R200, R503} : FetchDone(r, out)
  \/ \E r \in Slots : ResponseInterceptorDone(r)
  \/ \E r \in Slots : BackoffDone(r)
  \/ Tick

SpecChain == Init /\ [][NextChain]_vars

NextErr ==
  \/ \E r \in Slots :
       /\ nCalls < ErrCalls
       /\ NoneInFlight
       /\ RequestDirect(r, UrlA, In(UrlA, Absent, "false", NoTTL).cfg)
  \/ nCalls = 0 /\ AddRequestInterceptor("T")
  \/ \E f \in {"A", "B", "T"} : nCalls = 0 /\ AddErrorInterceptor(f)
  \/ \E r \in Slots : RequestInterceptorDone(r)
  \/ \E r \in Slots, out \in {NetworkDown, R200, R404} : FetchDone(r, out)
  \/ \E r \in Slots : ErrorInterceptorDone(r)
  \/ \E r \in Slots : BackoffDone(r)
  \/ Tick

SpecErr == Init /\ [][NextErr]_vars

\* Refresh tokens good for 60 s and 61 s are set or replaced, or the token is
\* withdrawn (with the default expiry of one hour), while the application
\* makes one call after the other.
TokenCalls == 2

TokenInputs ==
  { [token |-> "rt", expiryTime |-> 60000],
    [token |-> "rt", expiryTime |-> 61000],
    [token |-> Absent, expiryTime |-> 3600000] }

NextToken ==
  \/ \E r \in Slots :
       /\ nCalls < TokenCalls
       /\ NoneInFlight
       /\ RequestDirect(r, UrlA, In(UrlA, Absent, "false", NoTTL).cfg)
  \/ \E r \in Slots : RefreshDone(r)
  \/ \E r \in Slots : FetchDone(r, R200)
  \/ \E i \in TokenInputs : SetRefreshToken(i.token, i.expiryTime)
  \/ SetAuthToken("t1", "Bearer")
  \/ Tick

SpecToken == Init /\ [][NextToken]_vars

\* A transport that answers in time, answers with 503, or does not answer
\* before the abort timer of the attempt is due.
TimeoutCalls == 1

NextTimeout ==
  \/ \E r \in Slots :
       /\ nCalls < TimeoutCalls
       /\ NoneInFlight
       /\ RequestDirect(r, UrlA, In(UrlA, Absent, "false", NoTTL).cfg)
  \/ nCalls = 0 /\ AddRequestInterceptor("A")
  \/ \E r \in Slots : RequestInterceptorDone(r)
  \/ \E r \in Slots, out \in {R200, R503} : FetchDone(r, out)
  \/ \E r \in Slots : AbortFetch(r)
  \/ \E r \in Slots : TimeoutElapses(r)
  \/ \E r \in Slots : BackoffDone(r)
  \/ \E r \in Slots : BackoffElapses(r)
  \/ Tick

SpecTimeout == Init /\ [][NextTimeout]_vars

\* One call after the other against a window of maxRequests, with request,
\* response and error interceptors registered and the result cacheable.
RejectCalls == 3

NextReject ==
  \/ \E r \in Slots :
       /\ nCalls < RejectCalls
       /\ NoneInFlight
       /\ RequestDirect(r, UrlA, NoConfig)
  \/ nCalls = 0 /\ AddRequestInterceptor("A")
  \/ nCalls = 0 /\ AddResponseInterceptor("A")
  \/ nCalls = 0 /\ AddErrorInterceptor("A")
  \/ \E r \in Slots : RequestInterceptorDone(r)
  \/ \E r \in Slots : FetchDone(r, R200)
  \/ \E r \in Slots : ResponseInterceptorDone(r)
  \/ \E r \in Slots : ErrorInterceptorDone(r)
  \/ \E t \in pending : ExpireTimer(t)
  \/ Tick

SpecReject == Init /\ [][NextReject]_vars

\* Calls that fail and are retried, with and without a request interceptor.
\* The event loop runs every callback that is ready, and the clock reaches
\* every armed deadline.
LiveCalls == 1

NextLive ==
  \/ \E r \in Slots :
       /\ nCalls < LiveCalls
       /\ NoneInFlight
       /\ RequestDirect(r, UrlA, In(UrlA, Absent, "false", NoTTL).cfg)
  \/ \E f \in {"A", "T"} : nCalls = 0 /\ AddRequestInterceptor(f)
  \/ nCalls = 0 /\ AddErrorInterceptor("A")
  \/ \E r \in Slots : RequestInterceptorDone(r)
  \/ \E r \in Slots, out \in {R200, R503} : FetchDone(r, out)
  \/ \E r \in Slots : ErrorInterceptorDone(r)
  \/ \E r \in Slots : BackoffDone(r)
  \/ \E r \in Slots : BackoffElapses(r)
  \/ Tick

FairLive ==
  \A r \in Slots :
    /\ WF_vars(RequestInterceptorDone(r))
    /\ WF_vars(\E out \in {R200, R503} : FetchDone(r, out))
    /\ WF_vars(ErrorInterceptorDone(r))
    /\ WF_vars(BackoffDone(r))
    /\ WF_vars(BackoffElapses(r))

SpecLive == Init /\ [][NextLive]_vars /\ FairLive

\* Every workload together.  The workloads above are checked one by one.
Next ==
  \/ NextCache
  \/ NextClear
  \/ NextPair
  \/ NextPost
  \/ NextWrap
  \/ NextRate
  \/ NextRetry
  \/ NextLive
  \/ NextReject
  \/ NextTimeout
  \/ NextToken
  \/ NextChain
  \/ NextErr

Spec == Init /\ [][Next]_vars

----------------------------------------------------------------------------
(* Properties                                                              *)

Started == {r \in Slots : calls[r].pc # "idle"}

Tagged(v) == [v EXCEPT !.fromCache = TRUE]

TtlOf(cfg) == IF cfg.cacheTTL = NoTTL THEN cacheTTL ELSE cfg.cacheTTL

C7_ClearAllIsFinal ==
  /\ [][ClearAllCache => GetCacheStats' = [entries |-> 0, keys |-> {}]]_vars
  /\ [](~firedStale)

\* A timer armed before clearAllCache() is past its deadline while an entry
\* stored after the clear under the same key is still in the cache.
C7_Witness ==
  \E r, q \in Started :
    /\ calls[r].pc = "returned" /\ calls[r].wrote
    /\ calls[r].timer < clearMark
    /\ now >= calls[r].doneAt + TtlOf(calls[r].cfg)
    /\ calls[q].pc = "returned" /\ calls[q].wrote
    /\ calls[q].timer >= clearMark
    /\ calls[q].key = calls[r].key
    /\ calls[q].key \in DOMAIN cache
    /\ cache[calls[q].key].by = q

PostSpellings == {"post", "Post", "POST"}

\* C2: a request whose method is POST in any letter case is never answered
\* from the cache and never writes a cache entry, whatever its cache flag and
\* whether or not an entry for the same URL and params exists.
C2_PostNeverCached ==
  /\ \A r \in Started :
       calls[r].cfg.method \in PostSpellings =>
         /\ ~calls[r].hit
         /\ ~calls[r].result.fromCache
         /\ calls[r].pc = "returned" => calls[r].transportCalls >= 1
  /\ \A k \in DOMAIN cache :
       /\ k[1] # "POST"
       /\ calls[cache[k].by].cfg.method \notin PostSpellings
  /\ \A t \in pending : t.key[1] # "POST"

\* A mixed-case POST with cache: true went to the transport and returned
\* while an entry for the same URL and params was in the cache.
C2_Witness ==
  \E r \in Started :
    /\ calls[r].cfg.method = "Post" /\ calls[r].cfg.cache = "true"
    /\ calls[r].seen # {}
    /\ calls[r].pc = "returned"
    /\ calls[r].seen \subseteq DOMAIN cache

Checked == {r \in Slots : calls[r].rateSeq > 0}

\* The accepted calls that are still inside the window when call r is checked.
InWindowBefore(r) ==
  {q \in Checked : /\ calls[q].rateSeq < calls[r].rateSeq
                   /\ calls[q].rateOk
                   /\ calls[q].rateAt > calls[r].rateAt - windowMs}

\* C3: a call passes the rate check while fewer than maxRequests accepted
\* calls lie within the last windowMs (so the first maxRequests calls of a
\* window pass, and a call passes again once windowMs has elapsed since the
\* oldest recorded call); a call that finds maxRequests accepted calls in the
\* window fails with RateLimitExceeded and a wait of at least one second.
C3_RateWindow ==
  \A r \in Checked :
    IF Cardinality(InWindowBefore(r)) < maxRequests
      THEN calls[r].rateOk
      ELSE /\ ~calls[r].rateOk
           /\ calls[r].errIn.t = "RateLimitExceeded"
           /\ calls[r].errIn.wait > 0
           /\ calls[r].transportCalls = 0

\* maxRequests calls passed, the next one in the same window was rejected,
\* and a call issued exactly windowMs after the first one passed.
C3_Witness ==
  \E a, b, c, d \in Checked :
    /\ calls[a].rateSeq = 1 /\ calls[b].rateSeq = 2
    /\ calls[c].rateSeq = 3 /\ calls[d].rateSeq = 4
    /\ calls[a].rateOk /\ calls[b].rateOk
    /\ ~calls[c].rateOk /\ calls[c].rateAt < calls[a].rateAt + windowMs
    /\ calls[c].errIn.wait > 0
    /\ calls[d].rateOk /\ calls[d].rateAt = calls[a].rateAt + windowMs

Retryable(status) == status = NoStatus \/ status >= 500

\* C4: a call that returns after k failed attempts had k <= maxRetries, every
\* one of the k failures was retryable, and it waited exactly k times, the
\* i-th wait armed for retryDelay * 2^(i-1) ms and lasting at least that long;
\* and a call gives up on a retryable failure only after maxRetries retries.
C4_ExponentialBackoff ==
  \A r \in Started :
    LET c == calls[r]
        k == Len(c.failures)
    IN /\ (c.pc = "returned" /\ ~c.hit) =>
            /\ k <= maxRetries
            /\ c.transportCalls = k + 1
            /\ Len(c.delays) = k /\ Len(c.waits) = k
            /\ \A i \in 1..k : /\ Retryable(c.failures[i])
                               /\ c.delays[i] = retryDelay * Pow2(i - 1)
                               /\ c.waits[i] >= c.delays[i]
       /\ (c.pc = "raised" /\ k > 0 /\ Retryable(c.failures[k])) => k = maxRetries + 1

\* 503, 503, then 200: the call returned after waits of retryDelay and 2 * retryDelay.
C4_Witness ==
  \E r \in Started :
    /\ calls[r].responses = <<503, 503, 200>>
    /\ calls[r].pc = "returned"
    /\ calls[r].result.status = 200
    /\ calls[r].delays = <<retryDelay, 2 * retryDelay>>

ClientError(status) == status >= 400 /\ status < 500

\* C5: a call that received a response with a status in 400..499 called the
\* transport exactly once, did not back off, and raises an error carrying
\* that status, the parsed body and the headers.
C5_ClientErrorNotRetried ==
  \A r \in Started :
    LET c == calls[r] IN
    (\E i \in 1..Len(c.responses) : ClientError(c.responses[i])) =>
      /\ c.transportCalls = 1
      /\ c.delays = <<>>
      /\ c.pc = "raised"
      /\ c.result.status = c.responses[1]
      /\ c.result.data # <<>>
      /\ c.result.headers # ""

Count(seq, x) == Cardinality({i \in 1..Len(seq) : seq[i] = x})

\* C6: interceptors of a chain run in registration order, each on the output
\* of the one before it and only after that one has completed; the request
\* chain runs on every attempt and the response chain on every successful
\* response.
C6_OrderInvariant ==
  \A r \in Started :
    LET c == calls[r] IN
    /\ c.started - c.finished \in {0, 1}
    /\ c.pc = "reqIcpt" =>
         /\ c.val.marks = SubSeq(requestInterceptors, 1, c.idx - 1)
         /\ c.started = c.idx /\ c.finished = c.idx - 1
    /\ c.pc = "respIcpt" =>
         /\ c.val.marks = SubSeq(responseInterceptors, 1, c.idx - 1)
         /\ c.started = c.idx /\ c.finished = c.idx - 1
    /\ c.pc \in {"reqIcpt", "fetch", "respIcpt"} => c.reqRuns = c.attempt + 1
    /\ c.respRuns = Count(c.responses, 200)

C6_OrderStep ==
  \A r \in Slots :
    /\ (calls[r].pc # "fetch" /\ calls'[r].pc = "fetch") =>
         calls'[r].sent = requestInterceptors
    /\ (calls[r].pc # "returned" /\ calls'[r].pc = "returned" /\ ~calls'[r].hit) =>
         calls'[r].result.marks = responseInterceptors

C6_InterceptorOrder == [](C6_OrderInvariant) /\ [][C6_OrderStep]_vars

\* With A then B registered on both chains, a call that was retried once sent
\* A-then-B descriptors and returned an A-then-B response.
C6_Witness ==
  \E r \in Started :
    /\ requestInterceptors = <<"A", "B">>
    /\ responseInterceptors = <<"A", "B">>
    /\ calls[r].pc = "returned"
    /\ calls[r].attempt = 1 /\ calls[r].reqRuns = 2
    /\ calls[r].sent = <<"A", "B">>
    /\ calls[r].result.marks = <<"A", "B">>

\* C8 as stated: every call that returns, returns a success envelope.
C8_AlwaysEnvelope ==
  \A r \in Started : calls[r].pc = "returned" => calls[r].result.t = "envelope"

Replaced(v) == \E i \in 1..Len(v.marks) : v.marks[i] = "U"

\* C8 amended: a completed call either raises an error or returns a value;
\* the value is the success envelope unless a response interceptor returned
\* something else, in which case it is what the interceptors returned.
C8_EnvelopeUnlessReplaced ==
  \A r \in Started :
    LET c == calls[r] IN
    /\ c.pc = "returned" =>
         IF Replaced(c.result)
           THEN c.result.t = "raw"
           ELSE /\ c.result.t = "envelope"
                /\ IsOk(c.result.status)
                /\ c.result.data # <<>> /\ c.result.headers # ""
                /\ c.result.fromCache = c.hit
    /\ c.pc = "raised" => IsError(c.result)

\* A call returned the non-envelope value of the last response interceptor.
C8_Witness ==
  \E r \in Started :
    /\ responseInterceptors = <<"A", "U">>
    /\ calls[r].pc = "returned"
    /\ calls[r].result.t = "raw"
    /\ calls[r].result.marks = <<"A", "U">>

\* C9 as stated: the error of every failed call went through the whole error
\* chain once, in order, and the caller gets what the last interceptor returned.
C9_WholeErrorChain ==
  \A r \in Started :
    calls[r].pc = "raised" =>
      /\ calls[r].errRuns = 1
      /\ calls[r].finished = Len(errorInterceptors)
      /\ calls[r].result = [calls[r].errIn EXCEPT !.marks = errorInterceptors]

FirstThrower(chain) ==
  IF \E i \in 1..Len(chain) : InterceptorThrows(chain[i])
    THEN CHOOSE i \in 1..Len(chain) :
           /\ InterceptorThrows(chain[i])
           /\ \A j \in 1..(i - 1) : ~InterceptorThrows(chain[j])
    ELSE 0

\* C9 amended: the error of every failed call enters the error chain exactly
\* once and is passed through the interceptors in registration order; the
\* caller gets what the last one returned, unless an error interceptor itself
\* raises: then the interceptors after it are skipped and the caller gets the
\* error it raised.
C9_ErrorChainUntilThrow ==
  \A r \in Started :
    LET c == calls[r]
        j == FirstThrower(errorInterceptors)
    IN c.pc = "raised" =>
         /\ c.errRuns = 1
         /\ IsError(c.errIn)
         /\ IF j = 0
              THEN /\ c.finished = Len(errorInterceptors)
                   /\ c.result = [c.errIn EXCEPT !.marks = errorInterceptors]
              ELSE /\ c.finished = j - 1
                   /\ c.result = InterceptorError(r)

\* With A then B registered, a 404 and a rate-limit rejection both reached
\* the caller marked A then B.
C9_Witness ==
  \E r, q \in Started :
    /\ errorInterceptors = <<"A", "B">>
    /\ calls[r].pc = "raised" /\ calls[q].pc = "raised"
    /\ calls[r].errIn.t = "RateLimitExceeded"
    /\ calls[r].result.marks = <<"A", "B">>
    /\ calls[q].errIn.t = "HTTPStatusError"
    /\ calls[q].result.marks = <<"A", "B">>

Mutating == {"post", "put", "patch", "delete"}

\* C10: a call made through post, put, patch or delete never returns a cached
\* entry and never stores its response, even when the caller's config passes
\* cache: true or a cacheTTL.
C10_WrappersNeverCache ==
  /\ \A r \in Started :
       calls[r].via \in Mutating =>
         /\ calls[r].cfg.cache = "false"
         /\ ~calls[r].hit
         /\ ~calls[r].result.fromCache
         /\ calls[r].pc = "returned" => calls[r].transportCalls >= 1
  /\ \A k \in DOMAIN cache : calls[cache[k].by].via \notin Mutating

\* put() with cache: true and a cacheTTL went to the transport although an
\* entry stored under its own key was in force.
C10_Witness ==
  \E r \in Started :
    /\ calls[r].via = "put"
    /\ calls[r].caller.cache = "true" /\ calls[r].caller.cacheTTL = 1000
    /\ calls[r].live
    /\ calls[r].pc = "returned"
    /\ calls[r].key \in DOMAIN cache
    /\ cache[calls[r].key].by # r

----------------------------------------------------------------------------
(* clearCache() and clearAllCache() touch one key, or all, and nothing else *)

TimersOf(k) == {t \in pending : t.key = k}

Slot(k) ==
  [entry |-> IF k \in DOMAIN cache THEN <<cache[k]>> ELSE <<>>,
   handle |-> IF k \in DOMAIN cacheTimers THEN <<cacheTimers[k]>> ELSE <<>>,
   timers |-> TimersOf(k)]

EmptySlot == [entry |-> <<>>, handle |-> <<>>, timers |-> {}]

\* C11: clearCache(K) removes K's entry and cancels its pending expiry timer,
\* and every other key keeps its entry, its timer handle and its pending
\* timer; clearCache(K) for an absent K and clearAllCache() on an empty cache
\* can always be executed and leave cache, cacheTimers and the pending timers
\* as they were.
C11_ClearFrame ==
  /\ [](nClears < MaxClears =>
          /\ \A k \in CacheKeys : ENABLED ClearCache(k)
          /\ ENABLED ClearAllCache)
  /\ [][/\ \A k \in CacheKeys :
            ClearCache(k) =>
              /\ Slot(k)' = EmptySlot
              /\ \A j \in CacheKeys \ {k} : Slot(j)' = Slot(j)
              /\ Slot(k) = EmptySlot => UNCHANGED <<cache, cacheTimers, pending>>
        /\ (ClearAllCache /\ cache = <<>> /\ cacheTimers = <<>>) =>
              UNCHANGED <<cache, cacheTimers, pending>>]_vars

\* clearCache(K) cancelled K's timer while another key, stored earlier, kept
\* its entry and its pending timer.
C11_Witness ==
  \E id \in DOMAIN gone : \E j \in DOMAIN cache :
    /\ gone[id].how = "clearCache"
    /\ gone[id].key \notin DOMAIN cache
    /\ j # gone[id].key
    /\ j \in DOMAIN cacheTimers /\ cacheTimers[j] < id
    /\ TimersOf(j) # {}

----------------------------------------------------------------------------
(* Overlapping calls with one cache key                                    *)

\* request() was called and has neither returned nor raised yet.
Open(r) == calls[r].pc \notin {"idle", "returned", "raised"}

\* The step in which call r does its rate check and cache lookup.
LooksUp(r) == calls[r].rateSeq = 0 /\ calls'[r].rateSeq > 0

\* C12: a cacheable request() that looks up its key while another call with
\* the same key is still open, no completed call's entry being in force,
\* finds no entry, starts its own attempt (its own interceptor chain and
\* transport call) and leaves the other call as it was; every step advances
\* one call only, an open transport call can always complete whatever the
\* other calls do, and a call that was not served from the cache returns the
\* response to its own transport call.
C12_NoCoalescing ==
  /\ [](\A r \in Slots :
          /\ calls[r].pc = "fetch" => ENABLED FetchDone(r, R200)
          /\ (calls[r].pc = "returned" /\ ~calls[r].hit) =>
                /\ calls[r].result.by = r
                /\ calls[r].transportCalls >= 1
                /\ calls[r].transportCalls = calls[r].reqRuns)
  /\ [][\A r \in Slots : \A q \in Slots \ {r} :
          /\ calls'[r] # calls[r] => calls'[q] = calls[q]
          /\ (/\ LooksUp(r) /\ Open(q)
              /\ calls'[r].rateOk /\ SaidCacheable(calls'[r].cfg)
              /\ calls[q].rateOk /\ calls[q].key = calls'[r].key
              /\ ~calls'[r].live)
             => /\ ~calls'[r].hit
                /\ calls'[r].reqRuns = 1
                /\ calls'[r].pc = "fetch" => calls'[r].transportCalls = 1]_vars

\* Two calls with one key overlapped in time, and each returned the response
\* to its own transport call.
C12_Witness ==
  \E r \in Slots : \E q \in Slots \ {r} :
    /\ calls[r].pc = "returned" /\ calls[q].pc = "returned"
    /\ ~calls[r].hit /\ ~calls[q].hit
    /\ calls[r].key = calls[q].key
    /\ calls[r].rateSeq < calls[q].rateSeq
    /\ calls[q].rateAt < calls[r].doneAt
    /\ calls[r].rateAt < calls[q].doneAt
    /\ calls[r].result.by = r /\ calls[q].result.by = q

----------------------------------------------------------------------------
(* Retry is bounded and request() terminates                               *)

\* The call gave up: its last attempt failed and the error went to the catch
\* block of request().
GaveUp(r) ==
  /\ calls[r].pc \in {"errIcpt", "raised"}
  /\ calls[r].rateOk
  /\ Len(calls[r].failures) >= 1

AllRetryable(r) ==
  \A i \in 1..Len(calls[r].failures) : Retryable(calls[r].failures[i])

ThrowingRequestInterceptor ==
  \E i \in 1..Len(requestInterceptors) : InterceptorThrows(requestInterceptors[i])

\* C13 as stated: a call whose every attempt failed with a retryable error
\* called the transport exactly maxRetries+1 times.
C13_TransportEveryAttempt ==
  \A r \in Started :
    (GaveUp(r) /\ AllRetryable(r)) => calls[r].transportCalls = maxRetries + 1

\* C13: a call makes at most maxRetries+1 attempts and calls the transport at
\* most once per attempt; a call whose every attempt failed with a retryable
\* error made exactly maxRetries+1 attempts, called the transport in each
\* attempt whose request interceptors completed (in all maxRetries+1 of them
\* when no request interceptor throws), and hands the last error to the
\* caller's side; and every call that was made eventually returns or raises.
C13_BoundedRetry ==
  /\ [](\A r \in Started :
          LET c == calls[r] IN
          /\ c.reqRuns <= maxRetries + 1
          /\ c.transportCalls <= c.reqRuns
          /\ (GaveUp(r) /\ AllRetryable(r)) =>
                /\ c.reqRuns = maxRetries + 1
                /\ Len(c.failures) = maxRetries + 1
                /\ c.transportCalls = Len(c.responses)
                /\ ~ThrowingRequestInterceptor => c.transportCalls = maxRetries + 1
                /\ c.errIn.status = c.failures[Len(c.failures)]
                /\ c.errIn.by = r)
  /\ \A r \in Slots : Open(r) ~> (calls[r].pc \in {"returned", "raised"})

\* Three 503 responses in a row: the call raised the third one.
C13_Witness ==
  \E r \in Started :
    /\ calls[r].pc = "raised"
    /\ calls[r].responses = <<503, 503, 503>>
    /\ calls[r].transportCalls = maxRetries + 1
    /\ calls[r].result.status = 503

----------------------------------------------------------------------------
(* The rate window never overflows                                         *)

\* C14: whatever calls were accepted or rejected and however the clock
\* advanced, requestTimestamps holds at most maxRequests timestamps, and
\* getRateLimitStatus() reports at most maxRequests requests in the window and
\* a remaining quota that is not negative.
C14_WindowBounded ==
  /\ Len(requestTimestamps) <= maxRequests
  /\ GetRateLimitStatus.requestsInWindow <= maxRequests
  /\ GetRateLimitStatus.remaining >= 0

\* The window is full, the quota is used up, and a call was rejected.
C14_Witness ==
  /\ Len(requestTimestamps) = maxRequests
  /\ GetRateLimitStatus.remaining = 0
  /\ \E r \in Checked : ~calls[r].rateOk
  /\ \E r \in Checked : calls[r].rateOk /\ calls[r].rateAt < now

----------------------------------------------------------------------------
(* Each entry ends once: by a clear or by its own timer                    *)

Cleared == {"clearCache", "clearAllCache"}

\* C15: every key in the cache has one entry, guarded by exactly one pending
\* timer, the one whose handle cacheTimers holds; a timer that was cancelled
\* by clearCache/clearAllCache (or replaced by a newer store) is never
\* pending again, so it never fires, and a timer that fired has no handle
\* left in cacheTimers; a key leaves the cache only in a clear or when its
\* own timer fires, and what ended a timer is recorded once and never
\* changes: no entry is removed both by a clear and by expiry.
C15_RemovedOnce ==
  /\ [](/\ \A k \in DOMAIN cache :
              /\ k \in DOMAIN cacheTimers
              /\ \E t \in pending : t.id = cacheTimers[k] /\ TimersOf(k) = {t}
         /\ \A id \in DOMAIN gone :
              /\ id \notin Range(cacheTimers)
              /\ \A t \in pending : t.id # id)
  /\ [][/\ \A id \in DOMAIN gone : id \in DOMAIN gone' /\ gone'[id] = gone[id]
        /\ \A k \in DOMAIN cache :
             k \notin DOMAIN cache' =>
               /\ cacheTimers[k] \in DOMAIN gone'
               /\ gone'[cacheTimers[k]].key = k
               /\ gone'[cacheTimers[k]].how \in Cleared \cup {"fired"}
        /\ \A t \in pending :
             (t \notin pending' /\ gone'[t.id].how = "fired") =>
               /\ t.key \in DOMAIN cache /\ cacheTimers[t.key] = t.id
               /\ t.key \notin DOMAIN cache' /\ t.key \notin DOMAIN cacheTimers']_vars

\* One entry was removed by its timer and another by a clear; nothing is left.
C15_Witness ==
  /\ \E id \in DOMAIN gone : gone[id].how = "fired"
  /\ \E id \in DOMAIN gone : gone[id].how \in Cleared
  /\ cache = <<>> /\ cacheTimers = <<>> /\ pending = {}

----------------------------------------------------------------------------
(* Storing a result arms one timer with the call's TTL                     *)

\* Call r returns in this step with a response it fetched itself.
Completes(r) ==
  /\ calls[r].pc # "returned"
  /\ calls'[r].pc = "returned"
  /\ ~calls'[r].hit

\* C16: when a cacheable call returns a fetched result, the cache holds that
\* result under the call's key and the only timer pending for the key is a new
\* one due at now + the call's cacheTTL (the client's cacheTTL when the call
\* gave none); no key ever has two pending timers; and the timer that removes
\* an entry is the one armed by the store that wrote it, firing no earlier
\* than that store's time + TTL.
C16_StoreArmsOneTimer ==
  /\ [](\A k \in CacheKeys : Cardinality(TimersOf(k)) <= 1)
  /\ [][/\ \A r \in Slots :
             (Completes(r) /\ SaidCacheable(calls'[r].cfg)) =>
               LET c == calls'[r] IN
               /\ c.key \in DOMAIN cache' /\ cache'[c.key] = c.result
               /\ cacheTimers'[c.key] = nextTimer
               /\ {t \in pending' : t.key = c.key} =
                    {[id |-> nextTimer, key |-> c.key, at |-> now + TtlOf(c.cfg)]}
        /\ \A t \in pending :
             (t \notin pending' /\ gone'[t.id].how = "fired") =>
               LET c == calls[cache[t.key].by] IN
               /\ c.wrote /\ c.timer = t.id
               /\ now >= c.doneAt + TtlOf(c.cfg)]_vars

\* The key was stored twice; the first store's deadline has passed, its timer
\* was replaced, and the second store's entry is still cached.
C16_Witness ==
  \E r \in Started : \E q \in Started \ {r} :
    /\ calls[r].wrote /\ calls[q].wrote
    /\ calls[r].key = calls[q].key
    /\ calls[r].timer \in DOMAIN gone /\ gone[calls[r].timer].how = "replaced"
    /\ now >= calls[r].doneAt + TtlOf(calls[r].cfg)
    /\ calls[r].key \in DOMAIN cache
    /\ cache[calls[r].key].by = q

----------------------------------------------------------------------------
(* Which requests create cache entries                                     *)

MutatingMethods == {"POST", "PUT", "PATCH", "DELETE"}

MethodOf(cfg) == IF cfg.method = Absent THEN "GET" ELSE ToUpperCase(cfg.method)

\* C17: no call of request() with method POST, PUT, PATCH or DELETE, whatever
\* its cache flag, creates a cache entry or is answered from one: every key in
\* the cache belongs to a non-mutating method.
C17_OnlyNonMutatingCached ==
  /\ \A k \in DOMAIN cache : k[1] \notin MutatingMethods
  /\ \A r \in Started :
       MethodOf(calls[r].cfg) \in MutatingMethods => ~calls[r].wrote /\ ~calls[r].hit

----------------------------------------------------------------------------
(* Token refresh                                                           *)

\* What the claim calls due, from the tokens as they were when request() was
\* called.
RefreshDue(c) ==
  /\ c.tokRefresh # Absent
  /\ c.tokExpiry # 0
  /\ c.issuedAt > c.tokExpiry - RefreshLeadMs

----------------------------------------------------------------------------
(* Each attempt has its own timeout                                        *)

\* The abort timer of call r fires in this step.
Aborts(r) == calls'[r].aborted > calls[r].aborted

\* The transport call of call r resolves in this step.
Answers(r) == Len(calls'[r].responses) > Len(calls[r].responses)

\* C19: while an attempt is under way its abort timer is due exactly timeout
\* ms after the attempt started, for the first attempt and for every retry;
\* the transport call is aborted only when that instant has come, no response
\* is taken after it, and the abort is an attempt failure without status:
\* the call backs off and tries again unless maxRetries retries are used up.
C19_TimeoutPerAttempt ==
  /\ [](\A r \in Started :
          calls[r].pc \in {"reqIcpt", "fetch"} =>
            calls[r].abortAt = calls[r].attemptAt + timeout)
  /\ [][\A r \in Slots :
          /\ Answers(r) => now <= calls[r].attemptAt + timeout
          /\ Aborts(r) =>
               /\ calls[r].pc = "fetch"
               /\ now >= calls[r].attemptAt + timeout
               /\ calls'[r].failures = Append(calls[r].failures, NoStatus)
               /\ Retryable(calls'[r].failures[Len(calls'[r].failures)])
               /\ IF calls[r].attempt < maxRetries
                    THEN /\ calls'[r].pc = "backoff"
                         /\ calls'[r].wakeAt = now + BackoffDelay(calls[r].attempt)
                    ELSE calls'[r].pc = "raised" /\ calls'[r].result.status = NoStatus]_vars

\* The first attempt was answered 503; the retry, started after the backoff,
\* was aborted a full timeout after its own start and is retried in turn.
C19_Witness ==
  \E r \in Started :
    /\ calls[r].responses = <<503>>
    /\ calls[r].failures = <<503, NoStatus>>
    /\ calls[r].aborted = 1
    /\ calls[r].pc = "backoff"
    /\ calls[r].attemptAt > calls[r].issuedAt
    /\ now = calls[r].attemptAt + timeout

----------------------------------------------------------------------------
(* The rate check comes before the cache lookup                            *)

\* C20: in the step in which a call is rate-checked, a full window rejects it
\* with RateLimitExceeded and nothing is read from the cache, even when an
\* entry for its key is in force; a call that passes, served from the cache
\* or not, adds its timestamp to the window and lowers the remaining quota by
\* one; no call is served from the cache without having passed the check.
C20_RateCheckFirst ==
  /\ [](\A r \in Started : calls[r].hit => calls[r].rateOk)
  /\ [][\A r \in Slots :
          LooksUp(r) =>
            LET c == calls'[r] IN
            /\ c.rateOk <=> (Len(CheckedWindow) < maxRequests)
            /\ c.rateOk =>
                 /\ requestTimestamps' = Append(CheckedWindow, now)
                 /\ GetRateLimitStatus'.remaining = GetRateLimitStatus.remaining - 1
            /\ ~c.rateOk =>
                 /\ ~c.hit /\ ~c.result.fromCache
                 /\ c.pc = "raised"
                 /\ c.result.t = "RateLimitExceeded"
                 /\ c.transportCalls = 0]_vars

\* A call was served from the cache and took the last unit of quota; the next
\* call for the same entry, still in force, was rejected.
C20_Witness ==
  \E r \in Checked : \E q \in InWindowBefore(r) :
    /\ calls[q].hit
    /\ ~calls[r].rateOk
    /\ calls[r].live
    /\ SaidCacheable(calls[r].cfg)
    /\ calls[r].pc = "raised"
    /\ calls[r].result.t = "RateLimitExceeded"

----------------------------------------------------------------------------
(* A rejected call touches nothing but the pruned window                   *)

Rejected(r) == calls[r].rateSeq > 0 /\ ~calls[r].rateOk

\* C21: in the step in which a call is rate-checked against a pruned window
\* that holds maxRequests timestamps or more, the window is pruned and gets no
\* new timestamp, cache, cacheTimers and the pending timers stay as they are,
\* and the call is already in the catch block with RateLimitExceeded; a
\* rejected call never runs a request or response interceptor, never calls
\* the transport, never backs off and never reads or writes the cache; and
\* when the window holds fewer, the new window is the pruned one followed by
\* the current time.
C21_RejectedTouchesNothing ==
  /\ [](\A r \in Started :
          Rejected(r) =>
            LET c == calls[r] IN
            /\ c.pc \in {"errIcpt", "raised"}
            /\ c.errIn.t = "RateLimitExceeded"
            /\ c.reqRuns = 0 /\ c.respRuns = 0 /\ c.transportCalls = 0
            /\ c.attempt = 0 /\ c.delays = <<>> /\ c.failures = <<>>
            /\ ~c.hit /\ ~c.wrote /\ c.errRuns = 1)
  /\ [][\A r \in Slots :
          LooksUp(r) =>
            IF Len(FilterSeq(requestTimestamps, now - windowMs)) >= maxRequests
              THEN /\ ~calls'[r].rateOk
                   /\ requestTimestamps' = FilterSeq(requestTimestamps, now - windowMs)
                   /\ UNCHANGED cacheVars
              ELSE /\ calls'[r].rateOk
                   /\ requestTimestamps' =
                        Append(FilterSeq(requestTimestamps, now - windowMs), now)]_vars

\* With all three chains registered and an entry for its key cached, a call
\* was rejected and raised after the error chain, and the window still holds
\* the timestamps of the accepted calls only.
C21_Witness ==
  \E r \in Started :
    /\ Rejected(r)
    /\ calls[r].pc = "raised"
    /\ calls[r].result.t = "RateLimitExceeded"
    /\ calls[r].live
    /\ requestInterceptors # <<>> /\ responseInterceptors # <<>> /\ errorInterceptors # <<>>
    /\ GenerateCacheKey(ResolveUrl(calls[r].url), calls[r].cfg) \in DOMAIN cache
    /\ Len(requestTimestamps) = maxRequests
    /\ \A i \in 1..Len(requestTimestamps) :
         \E q \in Started : calls[q].rateOk /\ calls[q].rateAt = requestTimestamps[i]

----------------------------------------------------------------------------
(* cache and cacheTimers have the same keys                                *)

\* C22: cache and cacheTimers always have the same keys; the handle held for
\* a key is that of a pending timer for that key, which is the only timer
\* pending for it; and every pending timer belongs to a key that has an entry
\* and is the timer whose handle is held for that key.
C22_SameKeys ==
  /\ DOMAIN cache = DOMAIN cacheTimers
  /\ \A k \in DOMAIN cacheTimers :
       /\ Cardinality({t \in pending : t.key = k}) = 1
       /\ \A t \in pending : t.key = k => t.id = cacheTimers[k]
  /\ \A t \in pending : t.key \in DOMAIN cache
  /\ Cardinality(pending) = Cardinality(DOMAIN cache)

\* A clear was executed and requests for two keys completed, one of them some
\* time ago: two entries, two handles, two pending timers.
C22_Witness ==
  /\ Cardinality(DOMAIN cache) = 2
  /\ Cardinality(pending) = 2
  /\ nClears > 0
  /\ \E t \in pending : t.at > now
  /\ \E r \in Started : calls[r].pc = "returned" /\ calls[r].doneAt < now

----------------------------------------------------------------------------
(* One timestamp per accepted call, whatever its attempts                  *)

Accepted == {r \in Checked : calls[r].rateOk}

\* C23: every call is rate-checked once, and the window changes only in the
\* step of such a check: the timestamps it holds are those of accepted calls,
\* no more of them for an instant than calls were accepted at that instant;
\* the step that starts a retry leaves the window and the number of checks
\* unchanged, and a call that passed the check never fails with
\* RateLimitExceeded afterwards.
C23_OneTimestampPerCall ==
  /\ [](/\ nChecks = Cardinality(Checked)
         /\ \A i \in 1..Len(requestTimestamps) :
              LET at == requestTimestamps[i] IN
              Cardinality({j \in 1..Len(requestTimestamps) : requestTimestamps[j] = at})
                <= Cardinality({r \in Accepted : calls[r].rateAt = at})
         /\ \A r \in Accepted :
              /\ calls[r].errIn.t # "RateLimitExceeded"
              /\ calls[r].result.t # "RateLimitExceeded")
  /\ [][/\ (requestTimestamps' # requestTimestamps \/ nChecks' # nChecks) =>
             \E r \in Slots : LooksUp(r)
        /\ \A r \in Slots :
             calls'[r].attempt > calls[r].attempt =>
               /\ UNCHANGED <<requestTimestamps, nChecks>>
               /\ calls'[r].rateSeq = calls[r].rateSeq
               /\ calls'[r].rateAt = calls[r].rateAt]_vars

\* One call made maxRetries+1 transport calls, the last of them well after
\* the check, and the window holds the one timestamp of its check.
C23_Witness ==
  \E r \in Accepted :
    /\ calls[r].transportCalls = maxRetries + 1
    /\ calls[r].attemptAt > calls[r].rateAt
    /\ requestTimestamps = <<calls[r].rateAt>>
    /\ nChecks = 1

----------------------------------------------------------------------------
(* A call that raises leaves the cache alone                               *)

Raising == {r \in Started : calls[r].pc \in {"errIcpt", "raised"}}

\* C24: a step of a call changes cache, cacheTimers or the pending timers
\* only if the call returns in that step, and a call that has returned does
\* nothing more, so no step of a call that ends by raising creates, replaces
\* or removes an entry or arms or cancels a timer; such a call was not served
\* from the cache, stored nothing, and no entry and no pending timer in the
\* cache is its own.
C24_FailureLeavesCache ==
  /\ [](\A r \in Raising :
          /\ ~calls[r].hit /\ ~calls[r].wrote
          /\ \A k \in DOMAIN cache : cache[k].by # r
          /\ \A t \in pending : t.id # calls[r].timer)
  /\ [][\A r \in Slots :
          /\ calls[r].pc \in {"returned", "raised"} => calls'[r] = calls[r]
          /\ (calls'[r] # calls[r] /\ calls'[r].pc # "returned") =>
                UNCHANGED <<cache, cacheTimers, pending, nextTimer>>]_vars

\* A call got 404 and raised while the entry stored for the same key by an
\* overlapping call, and its timer, are still there.
C24_Witness ==
  \E r \in Raising : \E q \in Started \ {r} :
    /\ calls[r].pc = "raised"
    /\ calls[r].responses = <<404>>
    /\ calls[q].pc = "returned" /\ calls[q].wrote
    /\ calls[q].key = calls[r].key
    /\ calls[q].rateAt < calls[r].rateAt
    /\ calls[q].key \in DOMAIN cache
    /\ cache[calls[q].key] = calls[q].result
    /\ \E t \in pending : t.id = calls[q].timer /\ t.key = calls[q].key

----------------------------------------------------------------------------
(* Interceptors run inside the attempt                                     *)

\* An interceptor of the request or response chain of call r throws in this
\* step.
ChainThrows(r) ==
  /\ calls[r].pc \in {"reqIcpt", "respIcpt"}
  /\ Len(calls'[r].failures) = Len(calls[r].failures) + 1

\* The next attempt of call r starts in this step.
Restarts(r) == calls'[r].attempt = calls[r].attempt + 1

\* C25: the error thrown by a request or response interceptor is an attempt
\* failure without status: while attempts remain the call backs off for
\* retryDelay * 2^attempt and otherwise the error goes to the catch block; the
\* attempt that follows a backoff starts with the request chain from its first
\* interceptor (or with the transport call when there is none); so the
\* request chain has run once per attempt, attempt+1 times in all, and the
\* transport and the response chain at most as often.
C25_ChainsInsideAttempt ==
  /\ [](\A r \in Started :
          LET c == calls[r] IN
          c.reqRuns > 0 =>
            /\ c.reqRuns = c.attempt + 1
            /\ c.transportCalls <= c.reqRuns
            /\ c.respRuns <= c.transportCalls
            /\ Len(c.delays) = c.attempt + (IF c.pc = "backoff" THEN 1 ELSE 0))
  /\ [][\A r \in Slots :
          /\ ChainThrows(r) =>
               /\ calls'[r].failures = Append(calls[r].failures, NoStatus)
               /\ IF calls[r].attempt < maxRetries
                    THEN /\ calls'[r].pc = "backoff"
                         /\ calls'[r].wakeAt = now + retryDelay * Pow2(calls[r].attempt)
                    ELSE /\ calls'[r].pc \in {"errIcpt", "raised"}
                         /\ calls'[r].errIn.t = "InterceptorError"
          /\ Restarts(r) =>
               /\ calls[r].pc = "backoff" /\ now >= calls[r].wakeAt
               /\ calls'[r].reqRuns = calls[r].reqRuns + 1
               /\ IF requestInterceptors # <<>>
                    THEN /\ calls'[r].pc = "reqIcpt" /\ calls'[r].idx = 1
                         /\ calls'[r].transportCalls = calls[r].transportCalls
                    ELSE /\ calls'[r].pc = "fetch"
                         /\ calls'[r].transportCalls = calls[r].transportCalls + 1]_vars

\* The transport answered 200 three times, each time after the request chain
\* had run, and each time a response interceptor threw: the call raised the
\* interceptor's error after maxRetries retries.
C25_Witness ==
  \E r \in Started :
    /\ requestInterceptors # <<>>
    /\ calls[r].sent # <<>>
    /\ calls[r].responses = <<200, 200, 200>>
    /\ calls[r].reqRuns = maxRetries + 1
    /\ calls[r].respRuns = maxRetries + 1
    /\ calls[r].failures = <<NoStatus, NoStatus, NoStatus>>
    /\ calls[r].pc = "raised"
    /\ calls[r].result.t = "InterceptorError"

----------------------------------------------------------------------------
(* Clearing the cache leaves the requests in flight alone                  *)

\* The calls that fetched a response and were to store it.
Writers ==
  {r \in Slots : /\ calls[r].pc = "returned" /\ ~calls[r].hit
                 /\ SaidCacheable(calls[r].cfg)}

\* C26: clearCache and clearAllCache change no call: a cacheable call that is
\* in flight during a clear still stores its response under its key when it
\* returns, whatever was cleared before; the response a call stored stays the
\* entry of its key until a clear, its timer or a later store ends it, so the
\* entry of a key is always the response of the call that completed last
\* among those that stored under it, whichever was issued first.
C26_ClearsSpareInFlight ==
  /\ [](/\ \A r \in Writers :
              calls[r].timer \notin DOMAIN gone =>
                /\ calls[r].key \in DOMAIN cache
                /\ cache[calls[r].key] = calls[r].result
                /\ cacheTimers[calls[r].key] = calls[r].timer
         /\ \A k \in DOMAIN cache :
              /\ cache[k].by \in Writers
              /\ calls[cache[k].by].key = k
              /\ \A q \in Writers \ {cache[k].by} :
                   calls[q].key = k => calls[q].timer < calls[cache[k].by].timer)
  /\ [][/\ nClears' > nClears => (calls' = calls /\ nCalls' = nCalls)
        /\ \A r \in Slots :
             (Completes(r) /\ SaidCacheable(calls[r].cfg)) =>
               /\ calls'[r].cfg = calls[r].cfg
               /\ calls'[r].key \in DOMAIN cache'
               /\ cache'[calls'[r].key] = calls'[r].result
               /\ calls'[r].result.by = r]_vars

\* Call r was issued before call q with the same key; q completed first and
\* its entry was removed by a clear; r completed after the clear, and with no
\* further call issued the cache holds r's response.
C26_Witness ==
  \E r \in Writers : \E q \in Writers \ {r} :
    /\ nCalls = 2
    /\ calls[r].key = calls[q].key
    /\ calls[r].rateSeq < calls[q].rateSeq
    /\ calls[q].timer < calls[r].timer
    /\ calls[q].timer \in DOMAIN gone
    /\ gone[calls[q].timer].how \in Cleared
    /\ calls[r].key \in DOMAIN cache
    /\ cache[calls[r].key].by = r

====
